---- MODULE Spec2Model ----
(***************************************************************************)
(* Model of the weighted round-robin balancer of oxy (package roundrobin): *)
(* the backend pool (RoundRobin), its iterator, the sticky-session mixin   *)
(* and the balancer's ServeHTTP; and of the forwarder (package forward):   *)
(* the HTTP handler, the WebSocket handler with its two pumps and waiter,  *)
(* and the metrics context.                                                *)
(*                                                                         *)
(* Go pointers to server structs are modelled as indices into `heap`;      *)
(* 0 is the nil pointer.  `servers` (the rotation) and `stickyServers`     *)
(* (the group map) hold such pointers, so that aliasing between the two    *)
(* is what it is in the program.                                           *)
(***************************************************************************)
EXTENDS Integers, Sequences, FiniteSets, TLC

\* ------------------------------------------------------------------ bounds
MaxObj    == 3     \* server structs alive at the same time
MaxPicks  == 8     \* NextServer results recorded in one run
MaxWeight == 3     \* largest weight passed to the Weight option
MaxReqs   == 1     \* requests served by ServeHTTP
MaxMuts   == 3     \* UpsertServer and RemoveServer calls next to a request
MaxTasks  == 2     \* requests handled by the forwarder, concurrently
MaxBytes  == 1     \* bytes copied by the pumps of the WebSocket sessions, in all
MaxSessions == 1   \* WebSocket sessions, concurrently

\* --------------------------------------------------------------- constants
defaultWeight == 1

\* ------------------------------------------------------------------- URLs
\* url.URL restricted to the fields the balancer reads.
MkURL(s, h, p, q) == [scheme |-> s, host |-> h, path |-> p, query |-> q, isnil |-> FALSE]
NilURL == [scheme |-> "", host |-> "", path |-> "", query |-> "", isnil |-> TRUE]
UA  == MkURL("http", "a", "/", "")
UAq == MkURL("http", "a", "/", "x=1")
UB  == MkURL("http", "b", "/", "")
UC  == MkURL("http", "c", "/", "")
UP  == MkURL("http", "b", "/api", "")
\* URLs of incoming requests (server side: no scheme, no host).
RX  == MkURL("", "", "/x", "q=1")
RS  == MkURL("", "", "/", "")

sameURL(a, b) == a.path = b.path /\ a.host = b.host /\ a.scheme = b.scheme

\* utils.CopyURL: a field-by-field copy.
CopyURL(u) == [scheme |-> u.scheme, host |-> u.host, path |-> u.path,
               query |-> u.query, isnil |-> u.isnil]

\* ------------------------------------------------------- server and routing
NoRouting == [isnil |-> TRUE, status |-> "", groupID |-> 0, hmacKeys |-> <<>>,
              stickyRoutingOnly |-> FALSE]
MkRouting(st, g, keys, sticky) ==
    [isnil |-> FALSE, status |-> st, groupID |-> g, hmacKeys |-> keys,
     stickyRoutingOnly |-> sticky]

\* &server{url: utils.CopyURL(u)}: the zero value of the other fields.
NewServer(u) == [url |-> CopyURL(u), weight |-> 0, pathRewrite |-> FALSE,
                 routing |-> NoRouting]

\* ----------------------------------------------------------- ServerOptions
OptWeight(w)       == [t |-> "Weight", w |-> w, r |-> FALSE, routing |-> NoRouting]
OptPathRewrite(r)  == [t |-> "PathRewrite", w |-> 0, r |-> r, routing |-> NoRouting]
OptEnableJSID(st, g, keys, sticky) ==
    [t |-> "EnableJSID", w |-> 0, r |-> FALSE, routing |-> MkRouting(st, g, keys, sticky)]

Weight(s, w) ==
    IF w < 0 THEN [s |-> s, err |-> TRUE]
    ELSE [s |-> [s EXCEPT !.weight = w], err |-> FALSE]

PathRewrite(s, r) == [s |-> [s EXCEPT !.pathRewrite = r], err |-> FALSE]

EnableJSID(s, rt) == [s |-> [s EXCEPT !.routing = rt], err |-> FALSE]

ApplyOption(s, o) ==
    CASE o.t = "Weight"      -> Weight(s, o.w)
      [] o.t = "PathRewrite" -> PathRewrite(s, o.r)
      [] o.t = "EnableJSID"  -> EnableJSID(s, o.routing)

\* for _, o := range options { if err := o(s); err != nil { return err } }
\* The options before the failing one have already been applied to s.
RECURSIVE ApplyOptions(_, _)
ApplyOptions(s, opts) ==
    IF opts = <<>> THEN [s |-> s, err |-> FALSE]
    ELSE LET r == ApplyOption(s, Head(opts))
         IN IF r.err THEN r ELSE ApplyOptions(r.s, Tail(opts))


\* ------------------------------------------------------------------ state
VARIABLES
    heap,           \* server structs by pointer; heap[p] is *p, FreeSlot if unallocated
    servers,        \* RoundRobin.servers: sequence of pointers (the rotation)
    stickyServers,  \* RoundRobin.stickyServers: groupID -> pointer, 0 = no entry
    index,          \* RoundRobin.index
    currentWeight,  \* RoundRobin.currentWeight
    ss,             \* RoundRobin.ss # nil (sticky sessions configured)
    mutex,          \* RoundRobin.mutex: "free", "held", or "writing" (held by a
                    \* call that writes the group map)
    picks,          \* history: pointers returned by NextServer since the pool last changed
    startFresh,     \* history: the iterator was (-1, 0) when `picks` was started
    last,           \* history: the last pool operation, its argument and its result
    req,            \* the request being served by ServeHTTP
    nreq,           \* number of requests accepted so far
    nmut,           \* number of UpsertServer and RemoveServer calls counted so far
    tasks,          \* the requests handled by Forwarder.ServeHTTP, one goroutine each
    mc              \* the forwarder's metricsContext and the counters it registered

vars == <<heap, servers, stickyServers, index, currentWeight, ss, mutex,
          picks, startFresh, last, req, nreq, nmut, tasks, mc>>
rrVars == <<heap, servers, stickyServers, index, currentWeight, ss, mutex,
            picks, startFresh, last, req, nreq, nmut>>
fwdVars == <<tasks, mc>>
poolVars == <<heap, servers, stickyServers, index, currentWeight, mutex,
              picks, startFresh, last>>

GIDs == {1, 2}
NilPtr == 0
Ptrs == 1..MaxObj
Range(f) == {f[x] : x \in DOMAIN f}

\* A slot of the heap that holds no live struct.
FreeSlot == [url |-> NilURL, weight |-> 0, pathRewrite |-> FALSE, routing |-> NoRouting]

\* The last pool operation: its name, its URL argument, its error ("" for
\* nil), the struct it returned or operated on, and, for the operations that
\* take a URL, how many Backends were registered before the call and whether
\* one of them had that URL.
NoOp == [op |-> "none", url |-> NilURL, err |-> "", ret |-> NilPtr,
         card |-> 0, present |-> FALSE]
Done(op, u, err, ret, card, present) ==
    [op |-> op, url |-> u, err |-> err, ret |-> ret, card |-> card, present |-> present]

\* The request ServeHTTP is serving: its inputs (cookie, the outcome of
\* jsid.SignedJSIDFromHeader, the upstream context), the handler's locals
\* (srv, stuck) and what it has done so far.  url is the url.URL struct
\* req.URL points to and entry its value when ServeHTTP was entered; target
\* is the URL of the clone handed to r.next; group is the outcome of the
\* group-map lookup and next the outcome of the NextServer call; race tells
\* that the group map was read while another call was writing it.
ObsKeys == {"error", "jsid-error", "upstream"}
IdleReq == [pc |-> "idle", cookie |-> "none", cookieURL |-> NilURL,
            token |-> "none", gid |-> 0, verifies |-> {}, hasUc |-> FALSE,
            url |-> NilURL, entry |-> NilURL,
            srv |-> NilPtr, stuck |-> FALSE, cookieSrv |-> NilPtr,
            group |-> "none", next |-> "none", race |-> FALSE,
            result |-> "", panic |-> FALSE, fwdTo |-> NilPtr, target |-> NilURL,
            setCookie |-> NilURL, obs |-> [k \in ObsKeys |-> ""]]

\* ------------------------------------------------- forwarder: the state
Tasks == 1..MaxTasks
Dirs == {"up", "down"}
NoTask == 0

\* A net.Conn as a handler sees it: st is "none" (not obtained), "open" or
\* "closed" (Close was called on it); peer is TRUE once the remote end has
\* closed, after which reads reach EOF.
NoConn   == [st |-> "none", peer |-> FALSE]
OpenConn == [st |-> "open", peer |-> FALSE]
ClosedConn(c) == [c EXCEPT !.st = "closed"]

\* A header value is the string req.Header.Get returns, written as the
\* sequence of its pieces: words in some casing, " " and ",".  A header that
\* is absent reads as the empty string.
NoHeader == [Connection |-> <<>>, Upgrade |-> <<>>]
PlainHeader == [Connection |-> <<"keep-alive">>, Upgrade |-> <<>>]
UpgradeHeader == [Connection |-> <<"Up", "grade">>,
                  Upgrade |-> <<"web", "socket">>]

\* How a pump ended (history): the result of its last io.Copy, the level of
\* the message it logged, and whether its source had been closed on this side.
NoExit == [ret |-> "", level |-> "", srcClosed |-> FALSE]

\* One request in Forwarder.ServeHTTP.  hdr is its Connection and Upgrade
\* headers, kind the conn_type of the handler it was dispatched to.  HTTP: cl is req.ContentLength, code the response
\* status, upCL the Content-Length of the upstream response and hdrCL the
\* Content-Length of the response header map (-1: none),
\* defers the deferred calls in the order of their defer statements.
\* WebSocket: outcome of the set-up, targetConn and underlyingConn, the
\* closing flag, the WaitGroup counter wg, the two pumps ("up" copies
\* underlyingConn to targetConn, "down" the other way), atEOF (the source was
\* already closed when io.Copy was called) and the waiter goroutine.
\* errH: the ErrorHandler was invoked.  step: statements of the init body
\* done.  incs and decs: history of this request's Inc and Dec of the
\* concurrent-open gauge.
IdleTask == [pc |-> "idle", kind |-> "", hdr |-> NoHeader, step |-> 0,
             cl |-> 0, code |-> 0, upCL |-> -1, hdrCL |-> -1, written |-> 0, defers |-> <<>>,
             errH |-> FALSE, outcome |-> "",
             targetConn |-> NoConn, underlyingConn |-> NoConn,
             closing |-> 0, wg |-> 0,
             pump |-> [d \in Dirs |-> "none"], atEOF |-> [d \in Dirs |-> FALSE],
             exit |-> [d \in Dirs |-> NoExit],
             waiter |-> "none", incs |-> 0, decs |-> 0]

\* The fields httpInit and wsInit assign, in the order of their assignments.
ConnTypes == {"http", "websocket"}
HttpFields == <<"httpRead", "httpWritten", "httpResponseTime",
                "httpConnectionCounter", "httpConnectionOpen", "httpReturnCode">>
WsFields == <<"wsRead", "wsWritten", "wsSessionTime",
              "wsConnectionCounter", "wsConnectionOpen">>
Fields(ct) == IF ct = "http" THEN HttpFields ELSE WsFields

\* func NewMetricsContext(registry, tags): initMutex is the task holding the
\* mutex, assigned the number of fields of a bundle that have been assigned,
\* runs (history) how often the body of the init has run; bytesIn, bytesOut,
\* count and open are the values of the registered counters.  registry
\* holds the values of the counters registered under "response.count" with
\* the tag httpcode of a class; returnCode is the httpReturnCode map: for a
\* class, whether the counter in the map is the one the registry holds
\* (shared) and, when it is not, its value n.
NewMetricsContext ==
    [initMutex |-> NoTask,
     started   |-> [ct \in ConnTypes |-> FALSE],
     assigned  |-> [ct \in ConnTypes |-> 0],
     runs      |-> [ct \in ConnTypes |-> 0],
     bytesIn   |-> [ct \in ConnTypes |-> 0],
     bytesOut  |-> [ct \in ConnTypes |-> 0],
     count     |-> [ct \in ConnTypes |-> 0],
     open      |-> [ct \in ConnTypes |-> 0],
     registry  |-> <<>>,
     returnCode |-> <<>>]

\* The Backends registered in the pool: the structs the rotation or the
\* group map points to.
RegisteredIn(rot, grp) == (Range(rot) \cup Range(grp)) \ {NilPtr}
Registered == RegisteredIn(servers, stickyServers)
RegisteredAt(u) == {p \in Registered : sameURL(heap[p].url, u)}

\* Weights of the rotation, in rotation order.
Weights == [i \in 1..Len(servers) |-> heap[servers[i]].weight]

\* ----------------------------------------------------------- pure helpers
\* func gcd(a, b int) int
RECURSIVE gcd(_, _)
gcd(a, b) == IF b # 0 THEN gcd(b, a % b) ELSE a

\* func (rr *RoundRobin) maxWeight() int
RECURSIVE maxFrom(_, _)
maxFrom(ws, max) ==
    IF ws = <<>> THEN max
    ELSE maxFrom(Tail(ws), IF Head(ws) > max THEN Head(ws) ELSE max)
RECURSIVE maxFromFlipped(_, _)
maxFromFlipped(ws, max) ==
    IF ws = <<>> THEN max
    ELSE maxFromFlipped(Tail(ws), IF Head(ws) < max THEN Head(ws) ELSE max)
maxWeightFlipped(ws) == maxFromFlipped(ws, -1)
maxWeight(ws) == maxFrom(ws, -1)

\* func (rr *RoundRobin) weightGcd() int
RECURSIVE gcdFrom(_, _)
gcdFrom(ws, divisor) ==
    IF ws = <<>> THEN divisor
    ELSE gcdFrom(Tail(ws), IF divisor = -1 THEN Head(ws) ELSE gcd(divisor, Head(ws)))
weightGcd(ws) == gcdFrom(ws, -1)

\* func (r *RoundRobin) findServerByURL(u): position in the rotation (1-based)
\* of the first server with the same URL, 0 for (nil, -1).
RECURSIVE findFrom(_, _, _)
findFrom(u, hp, i) ==
    IF i > Len(hp) THEN 0
    ELSE IF sameURL(u, hp[i].url) THEN i
    ELSE findFrom(u, hp, i + 1)
findServerByURL(u) ==
    findFrom(u, [i \in 1..Len(servers) |-> heap[servers[i]]], 1)

\* if srv.weight >= r.currentWeight { return srv, nil }
SelectableStrict(w, cw) == w > cw
Selectable(w, cw) == w >= cw

\* The for-loop of NextServer, started with r.index = idx and
\* r.currentWeight = cw on a rotation with weights ws (non-empty).  The loop
\* state is (index, currentWeight); it has at most `fuel` distinct values, so
\* a run of more than `fuel` iterations repeats a state and never returns.
RECURSIVE NextLoop(_, _, _, _, _, _)
NextLoop(ws, g, max, idx, cw, fuel) ==
    IF fuel = 0 THEN [kind |-> "hang", index |-> idx, cw |-> cw]
    ELSE LET i   == (idx + 1) % Len(ws)
             cw1 == IF i = 0 THEN cw - g ELSE cw
             cw2 == IF i = 0 /\ cw1 <= 0 THEN max ELSE cw1
         IN IF i = 0 /\ cw1 <= 0 /\ max = 0
            THEN [kind |-> "zero", index |-> i, cw |-> cw2]
            ELSE IF Selectable(ws[i + 1], cw2)
                 THEN [kind |-> "ok", index |-> i, cw |-> cw2]
                 ELSE NextLoop(ws, g, max, i, cw2, fuel - 1)

LoopStates(ws, cw) ==
    Len(ws) * ((IF cw > maxWeight(ws) THEN cw ELSE maxWeight(ws)) + 2)

NextResult(ws, idx, cw) ==
    IF Len(ws) = 0 THEN [kind |-> "empty", index |-> idx, cw |-> cw]
    ELSE NextLoop(ws, weightGcd(ws), maxWeight(ws), idx, cw, LoopStates(ws, cw))

\* func (rr *RoundRobin) Servers(): a copy of the rotation
Servers == [i \in 1..Len(servers) |-> servers[i]]

\* func (rr *RoundRobin) ServerWeight(u)
ServerWeight(u) ==
    LET p == findServerByURL(u)
    IN IF p # 0 THEN <<heap[servers[p]].weight, TRUE>> ELSE <<-1, FALSE>>

\* ------------------------------------------------------------------- Init
\* func New(next, opts...): an empty pool, with or without EnableStickySession.
Init ==
    /\ heap = [p \in Ptrs |-> FreeSlot]
    /\ servers = <<>>
    /\ stickyServers = [g \in GIDs |-> NilPtr]
    /\ index = -1
    /\ currentWeight = 0
    /\ ss \in BOOLEAN
    /\ mutex = "free"
    /\ picks = <<>>
    /\ startFresh = TRUE
    /\ last = NoOp
    /\ req = IdleReq
    /\ nreq = 0
    /\ nmut = 0
    /\ tasks = [t \in Tasks |-> IdleTask]
    /\ mc = NewMetricsContext

\* ------------------------------------------------------- pointer renaming
\* Pointer values carry no meaning beyond identity.  After every operation
\* the live structs are renamed in a fixed order (rotation order, then the
\* group map by group id, then the request in flight) and the structs
\* nothing points to are dropped, as a compacting collector would do.
AppendNew(seq, p) == IF p = NilPtr \/ p \in Range(seq) THEN seq ELSE Append(seq, p)

RECURSIVE AppendGroups(_, _, _)
AppendGroups(seq, grp, g) ==
    IF g \notin GIDs THEN seq ELSE AppendGroups(AppendNew(seq, grp[g]), grp, g + 1)

LiveOrder(rot, grp, r) ==
    AppendNew(AppendNew(AppendNew(AppendGroups(rot, grp, 1), r.srv), r.cookieSrv), r.fwdTo)

NewPtr(order, p) ==
    IF p \in Range(order) THEN CHOOSE i \in 1..Len(order) : order[i] = p ELSE NilPtr

\* st is a record with the fields heap, servers, stickyServers, req, ret.
Compact(st) ==
    LET order == LiveOrder(st.servers, st.stickyServers, st.req)
    IN [heap          |-> [p \in Ptrs |-> IF p <= Len(order) THEN st.heap[order[p]]
                                          ELSE FreeSlot],
        servers       |-> [i \in 1..Len(st.servers) |-> NewPtr(order, st.servers[i])],
        stickyServers |-> [g \in GIDs |-> NewPtr(order, st.stickyServers[g])],
        req           |-> [st.req EXCEPT !.srv = NewPtr(order, st.req.srv),
                                         !.cookieSrv = NewPtr(order, st.req.cookieSrv),
                                         !.fwdTo = NewPtr(order, st.req.fwdTo)],
        ret           |-> NewPtr(order, st.ret)]

\* Number of live structs.
LiveCount == Cardinality({p \in Ptrs : ~heap[p].url.isnil})

\* ----------------------------------------------------------- UpsertServer
\* The outcome of a pool operation: the fields it may write, its error ("" for
\* nil) and the struct it operated on.
Outcome(hp, rot, grp, idx, cw, err, ret) ==
    [heap |-> hp, servers |-> rot, stickyServers |-> grp, index |-> idx,
     currentWeight |-> cw, err |-> err, ret |-> ret, req |-> req]
Unchanged(err) ==
    Outcome(heap, servers, stickyServers, index, currentWeight, err, NilPtr)

\* func (r *RoundRobin) resetState() / resetIterator(): the new
\* <<index, currentWeight>>.
resetState(idx, cw) == <<-1, 0>>

\* The update branch (lines 336-344): the URL is in the rotation at position p.
UpsertExisting(u, opts, p) ==
    LET id == servers[p]
        r  == ApplyOptions(heap[id], opts)
        hp == [heap EXCEPT ![id] = r.s]
        it == resetState(index, currentWeight)
    IN IF r.err
       THEN Outcome(hp, servers, stickyServers, index, currentWeight, "option", id)
       ELSE Outcome(hp, servers, stickyServers, it[1], it[2], "", id)

\* if srv.weight == 0 { srv.weight = defaultWeight }
DefaultWeight(s) == IF s.weight = 0 THEN [s EXCEPT !.weight = defaultWeight] ELSE s

\* if srv.routing.status == "FULL" || !srv.routing.stickyRoutingOnly
InRotation(rt) == rt.isnil \/ rt.status = "FULL" \/ ~rt.stickyRoutingOnly

\* The insert branch (lines 346-369): a new struct is allocated at pointer id.
UpsertNew(u, opts, id) ==
    LET r   == ApplyOptions(NewServer(u), opts)
        srv == DefaultWeight(r.s)
        hp  == [heap EXCEPT ![id] = srv]
        grp == IF srv.routing.isnil THEN stickyServers
               ELSE [stickyServers EXCEPT ![srv.routing.groupID] = id]
        it  == resetState(index, currentWeight)
    IN IF r.err THEN Unchanged("option")
       ELSE IF InRotation(srv.routing)
            THEN Outcome(hp, Append(servers, id), grp, it[1], it[2], "", id)
            ELSE Outcome(hp, servers, grp, index, currentWeight, "", id)

UpsertOutcome(u, opts) ==
    IF u.isnil THEN Unchanged("server URL can't be nil")
    ELSE IF findServerByURL(u) # 0
         THEN UpsertExisting(u, opts, findServerByURL(u))
         ELSE UpsertNew(u, opts, LiveCount + 1)

\* ----------------------------------------------------------- RemoveServer
\* r.servers = append(r.servers[:index], r.servers[index+1:]...)
DropAt(seq, p) == SubSeq(seq, 1, p - 1) \o SubSeq(seq, p + 1, Len(seq))

\* if e.routing != nil { delete(r.stickyServers, e.routing.groupID) }
PurgeGroup(grp, e) ==
    IF ~e.routing.isnil THEN [grp EXCEPT ![e.routing.groupID] = NilPtr] ELSE grp

RemoveOutcome(u) ==
    LET p  == findServerByURL(u)
        it == resetState(index, currentWeight)
    IN IF p = 0 THEN Unchanged("server not found")
       ELSE Outcome(heap, DropAt(servers, p), PurgeGroup(stickyServers, heap[servers[p]]),
                    it[1], it[2], "", servers[p])

\* ------------------------------------------------- the mutating operations
\* A call that changed the pool or the iterator starts a new run of
\* NextServer results.
Install(op, u, out) ==
    LET c == Compact(out)
    IN /\ heap' = c.heap
       /\ servers' = c.servers
       /\ stickyServers' = c.stickyServers
       /\ index' = out.index
       /\ currentWeight' = out.currentWeight
       /\ req' = c.req
       /\ last' = Done(op, u, out.err, c.ret, Cardinality(Registered),
                       ~u.isnil /\ RegisteredAt(u) # {})
       /\ IF <<heap', servers', stickyServers', index', currentWeight'>>
               # <<heap, servers, stickyServers, index, currentWeight>>
          THEN picks' = <<>> /\ startFresh' = (index' = -1 /\ currentWeight' = 0)
          ELSE UNCHANGED <<picks, startFresh>>

\* The call allocates a struct that stays alive.
Allocates(u, opts) ==
    /\ ~u.isnil
    /\ findServerByURL(u) = 0
    /\ ~ApplyOptions(NewServer(u), opts).err

UpsertServer(u, opts) ==
    /\ mutex = "free"
    /\ Allocates(u, opts) => LiveCount < MaxObj
    /\ Install("UpsertServer", u, UpsertOutcome(u, opts))
    /\ UNCHANGED <<ss, mutex, nreq, tasks, mc>>

RemoveServer(u) ==
    /\ mutex = "free"
    /\ Install("RemoveServer", u, RemoveOutcome(u))
    /\ UNCHANGED <<ss, mutex, nreq, tasks, mc>>

\* UpsertServer and RemoveServer in two steps: r.mutex.Lock(), then the body
\* of the call and the deferred Unlock.  writes tells whether the body is
\* going to write the group map.
WritesGroups(out) == out.stickyServers # stickyServers
LockPool(writes) ==
    /\ mutex = "free"
    /\ mutex' = IF writes THEN "writing" ELSE "held"
    /\ UNCHANGED <<heap, servers, stickyServers, index, currentWeight, picks,
                   startFresh, last, ss, req, nreq, nmut, tasks, mc>>
UpsertLocked(u, opts) ==
    /\ mutex # "free"
    /\ (mutex = "writing") = WritesGroups(UpsertOutcome(u, opts))
    /\ Allocates(u, opts) => LiveCount < MaxObj
    /\ Install("UpsertServer", u, UpsertOutcome(u, opts))
    /\ mutex' = "free"
    /\ UNCHANGED <<ss, nreq, tasks, mc>>
RemoveLocked(u) ==
    /\ mutex # "free"
    /\ (mutex = "writing") = WritesGroups(RemoveOutcome(u))
    /\ Install("RemoveServer", u, RemoveOutcome(u))
    /\ mutex' = "free"
    /\ UNCHANGED <<ss, nreq, tasks, mc>>

\* ------------------------------------------------------------- NextServer
\* The effect of one NextServer call on the pool; res is NextResult(...).
\* A call whose loop never returns keeps the mutex.
NextEffect(res) ==
    /\ index' = res.index
    /\ currentWeight' = res.cw
    /\ mutex' = IF res.kind = "hang" THEN "held" ELSE "free"
    /\ picks' = IF res.kind = "ok" THEN Append(picks, servers[res.index + 1]) ELSE picks
    /\ last' = Done("NextServer", NilURL,
                    CASE res.kind = "ok"    -> ""
                      [] res.kind = "empty" -> "no servers in the pool"
                      [] res.kind = "zero"  -> "all servers have 0 weight"
                      [] res.kind = "hang"  -> "no return",
                    IF res.kind = "ok" THEN servers[res.index + 1] ELSE NilPtr,
                    0, FALSE)
    /\ UNCHANGED <<heap, servers, stickyServers, startFresh>>

NextServerWithin(n) ==
    /\ mutex = "free"
    /\ Len(picks) < n
    /\ NextEffect(NextResult(Weights, index, currentWeight))
    /\ UNCHANGED <<ss, req, nreq, nmut, tasks, mc>>


\* ---------------------------------------------------------- StickySession
\* func (s *StickySession) isBackendAlive(needle, haystack): the first server
\* of haystack with the needle's URL, nil if none.
RECURSIVE isBackendAlive(_, _)
isBackendAlive(needle, haystack) ==
    IF haystack = <<>> THEN NilPtr
    ELSE IF sameURL(needle, heap[Head(haystack)].url) THEN Head(haystack)
    ELSE isBackendAlive(needle, Tail(haystack))

\* func (s *StickySession) GetBackend(req, servers) (*server, bool, error)
\* cookie is "none" (http.ErrNoCookie), "bad" (url.Parse fails) or "url".
GetBackend(cookie, cookieURL, haystack) ==
    CASE cookie = "none" -> [srv |-> NilPtr, present |-> FALSE, err |-> FALSE]
      [] cookie = "bad"  -> [srv |-> NilPtr, present |-> FALSE, err |-> TRUE]
      [] cookie = "url"  ->
            LET srv == isBackendAlive(cookieURL, haystack)
            IN [srv |-> srv, present |-> srv # NilPtr, err |-> FALSE]

\* func (s *StickySession) StickBackend(backend, w): the cookie value set
StickBackend(backend) == heap[backend].url

\* -------------------------------------------------------------- ServeHTTP
\* uc.Set(k, v): uc is a nil interface when the request context carries no
\* upstream context, and the call then panics.
UcSet(r, k, v) ==
    IF r.hasUc THEN [r EXCEPT !.obs[k] = v]
    ELSE [r EXCEPT !.panic = TRUE, !.pc = "done"]

\* for _, k := range srv.routing.hmacKeys { if sj.Verify(k) { stuck = true } }
VerifiesAny(keys, verifies) == \E i \in 1..Len(keys) : keys[i] \in verifies

\* Lines 194-203: srv = r.stickyServers[gid] is assigned whether or not the
\* cookie has already stuck the request.
GroupLookup(r) ==
    LET g  == stickyServers[r.gid]
        ok == g # NilPtr /\ VerifiesAny(heap[g].routing.hmacKeys, r.verifies)
    IN [r EXCEPT !.srv = g,
                 !.stuck = r.stuck \/ ok,
                 !.group = IF g = NilPtr THEN "miss"
                           ELSE IF ok THEN "verified" ELSE "unverified"]

\* Lines 163-186: the request is accepted and the sticky cookie resolved
\* against r.Servers(), which takes the pool mutex.
CookieStep(r0) ==
    LET gb == GetBackend(r0.cookie, r0.cookieURL, Servers)
    IN IF ~ss THEN r0
       ELSE IF gb.err
            THEN UcSet([r0 EXCEPT !.result = "error", !.pc = "done"], "error", "parse")
       ELSE IF gb.present
            THEN [r0 EXCEPT !.srv = gb.srv, !.stuck = TRUE, !.cookieSrv = gb.srv]
       ELSE r0

ServeCookie(u, cookie, cookieURL, token, gid, verifies, hasUc) ==
    /\ req.pc \in {"idle", "done"}
    /\ nreq < MaxReqs
    /\ ss => mutex = "free"
    /\ nreq' = nreq + 1
    /\ LET r0 == [IdleReq EXCEPT !.cookie = cookie, !.cookieURL = cookieURL,
                                 !.token = token, !.gid = gid,
                                 !.verifies = verifies, !.hasUc = hasUc,
                                 !.url = u, !.entry = u, !.pc = "token"]
           c  == Compact([heap |-> heap, servers |-> servers,
                          stickyServers |-> stickyServers, req |-> CookieStep(r0),
                          ret |-> last.ret])
       IN /\ heap' = c.heap
          /\ stickyServers' = c.stickyServers
          /\ req' = c.req
          /\ last' = [last EXCEPT !.ret = c.ret]
    /\ UNCHANGED <<servers, index, currentWeight, mutex, picks, startFresh, ss, nmut,
                   tasks, mc>>

\* r.stickyServers[gid] at line 197 is read without r.mutex.  A read of the
\* map made while another call is writing it either sees the map as it is
\* or stops the process (fatal error: concurrent map read and map write).
MapRead(token, mtx) ==
    IF token = "ok" /\ mtx = "writing" THEN {"read", "fatal"} ELSE {"read"}

\* Lines 188-208: the signed token and the group map (read without the mutex).
ServeToken ==
    /\ req.pc = "token"
    /\ \E o \in MapRead(req.token, mutex) :
         LET r0 == [req EXCEPT !.race = (req.token = "ok" /\ mutex = "writing")]
             r1 == IF r0.token = "err" THEN UcSet(r0, "jsid-error", "parse") ELSE r0
             r2 == IF r1.token = "ok" THEN GroupLookup(r1) ELSE r1
             r3 == IF r2.token = "ok" /\ ~r2.stuck
                   THEN UcSet(r2, "jsid-error", "No corresponding jumpy announce")
                   ELSE r2
         IN req' = IF o = "fatal"
                   THEN [r0 EXCEPT !.result = "fatal", !.panic = TRUE, !.pc = "done"]
                   ELSE IF r1.panic THEN r1
                   ELSE IF r3.panic THEN r3
                   ELSE [r3 EXCEPT !.pc = "select"]
    /\ UNCHANGED poolVars
    /\ UNCHANGED <<ss, nreq, nmut, tasks, mc>>

\* newReq := *req: the clone's URL field points to the url.URL struct of the
\* request ("in") until it is assigned a struct of its own ("out").
ShallowCopy(u) == [in |-> u, out |-> NilURL, ptr |-> "in"]

\* newReq.URL = utils.CopyURL(srv.url)
AdoptBackendInPlace(c, srvURL) ==
    [c EXCEPT !.in.scheme = srvURL.scheme, !.in.host = srvURL.host]
AdoptBackend(c, srvURL) == [c EXCEPT !.out = CopyURL(srvURL), !.ptr = "out"]

\* newReq.URL.Path = p and newReq.URL.RawQuery = q write the struct
\* newReq.URL points to.
SetPath(c, p)  == IF c.ptr = "in" THEN [c EXCEPT !.in.path = p]
                  ELSE [c EXCEPT !.out.path = p]
SetQuery(c, q) == IF c.ptr = "in" THEN [c EXCEPT !.in.query = q]
                  ELSE [c EXCEPT !.out.query = q]
NewReqURL(c)   == IF c.ptr = "in" THEN c.in ELSE c.out

\* Lines 230-242 for the server paths "/" and "/api" and the request paths
\* "/" and "/x": path.Join(srvPath, req.URL.Path), the trailing slash
\* preserved.
RewritePath(srvPath, reqPath) ==
    CASE srvPath = "/"                       -> reqPath
      [] srvPath = "/api" /\ reqPath = "/"   -> "/api/"
      [] srvPath = "/api" /\ reqPath = "/x"  -> "/api/x"

\* Lines 222-246: the URL of the clone.
CloneURL(u, s) ==
    LET c0 == AdoptBackend(ShallowCopy(u), s.url)
        c1 == SetQuery(SetPath(c0, u.path), u.query)
    IN IF s.pathRewrite THEN SetPath(c1, RewritePath(s.url.path, u.path)) ELSE c1

\* Lines 222-250: the URL of the clone, the delegation to r.next and the
\* "upstream" observation.  srv.url panics on a nil srv.
Forward(r) ==
    IF r.srv = NilPtr THEN [r EXCEPT !.panic = TRUE, !.pc = "done"]
    ELSE LET c == CloneURL(r.url, heap[r.srv])
         IN UcSet([r EXCEPT !.result = "forwarded", !.fwdTo = r.srv,
                            !.url = c.in, !.target = NewReqURL(c), !.pc = "done"],
                  "upstream", heap[r.srv].url.host)

\* Lines 212-215: http.Error(w, "503 Service Unavailable.", 503); return
ServiceUnavailableDelegates(r, kind) ==
    [r EXCEPT !.next = kind, !.result = "forwarded", !.pc = "done"]
ServiceUnavailable(r, kind) == [r EXCEPT !.next = kind, !.result = "503", !.pc = "done"]

\* Lines 210-250 for a request that is stuck: no NextServer call.
ServeStuck ==
    /\ req.pc = "select"
    /\ req.stuck
    /\ req' = Forward(req)
    /\ UNCHANGED poolVars
    /\ UNCHANGED <<ss, nreq, nmut, tasks, mc>>

\* Lines 210-220 for a request that is not stuck: NextServer, which takes the
\* mutex and releases it when it returns, 503 on error, and the sticky cookie
\* (srv.url is never written after the struct is built).  The rest of the
\* handler runs later, without the mutex.
ServeSelect ==
    /\ req.pc = "select"
    /\ ~req.stuck
    /\ mutex = "free"
    /\ Len(picks) < MaxPicks
    /\ LET res == NextResult(Weights, index, currentWeight)
           srv == IF res.kind = "ok" THEN servers[res.index + 1] ELSE NilPtr
       IN /\ NextEffect(res)
          /\ req' = CASE res.kind = "hang" -> [req EXCEPT !.pc = "hung"]
                      [] res.kind \in {"empty", "zero"} ->
                            ServiceUnavailable(req, res.kind)
                      [] res.kind = "ok" ->
                            [req EXCEPT !.srv = srv, !.next = "ok",
                                        !.setCookie = IF ss THEN StickBackend(srv)
                                                      ELSE NilURL,
                                        !.pc = "forward"]
    /\ UNCHANGED <<ss, nreq, nmut, tasks, mc>>

\* Lines 222-250 after NextServer has returned a server: srv.pathRewrite is
\* read as it is now, whatever UpsertServer calls ran since the pick.
ServeForward ==
    /\ req.pc = "forward"
    /\ req' = Forward(req)
    /\ UNCHANGED poolVars
    /\ UNCHANGED <<ss, nreq, nmut, tasks, mc>>

\* ---------------------------------------------- forwarder: metricsContext
SetTask(t, r) == [tasks EXCEPT ![t] = r]

\* strings.Split(s, ","): the pieces between the commas; one empty piece for
\* the empty string.
RECURSIVE Split(_)
Split(s) ==
    IF \A i \in 1..Len(s) : s[i] # ","
    THEN <<s>>
    ELSE LET k == CHOOSE i \in 1..Len(s) :
                      s[i] = "," /\ \A j \in 1..(i - 1) : s[j] # ","
         IN <<SubSeq(s, 1, k - 1)>> \o Split(SubSeq(s, k + 1, Len(s)))

\* strings.TrimSpace: leading and trailing white space removed.
RECURSIVE TrimLeft(_)
TrimLeft(s) == IF s # <<>> /\ s[1] = " " THEN TrimLeft(Tail(s)) ELSE s
RECURSIVE TrimRight(_)
TrimRight(s) ==
    IF s # <<>> /\ s[Len(s)] = " " THEN TrimRight(SubSeq(s, 1, Len(s) - 1)) ELSE s
TrimSpaceNone(s) == s
TrimSpace(s) == TrimRight(TrimLeft(s))

\* strings.ToLower, piece by piece.
LowerOf(c) ==
    CASE c \in {"Up", "UP"} -> "up"
      [] c = "GRADE" -> "grade"
      [] c \in {"Web", "WEB"} -> "web"
      [] c = "Socket" -> "socket"
      [] c = "Keep-Alive" -> "keep-alive"
      [] OTHER -> c
ToLower(s) == [i \in 1..Len(s) |-> LowerOf(s[i])]

\* containsHeader(name, value) of isWebsocketRequest, on the value
\* req.Header.Get(name) returned.
containsHeader(got, value) ==
    \E i \in 1..Len(Split(got)) : value = ToLower(TrimSpace(Split(got)[i]))

\* func isWebsocketRequest(req *http.Request) bool
isWebsocketRequest(h) ==
    /\ containsHeader(h.Connection, <<"up", "grade">>)
    /\ containsHeader(h.Upgrade, <<"web", "socket">>)

\* func (f *Forwarder) ServeHTTP: the request goes to the WebSocket forwarder
\* if isWebsocketRequest(req), to the HTTP forwarder otherwise.  Each handler
\* starts with the init of its metric bundle.
FwdDispatch(t, h, cl) ==
    /\ tasks[t].pc = "idle"
    /\ \A u \in Tasks : u < t => tasks[u].pc # "idle"
    /\ tasks' = SetTask(t, [IdleTask EXCEPT !.pc = "init", !.cl = cl, !.hdr = h,
                               !.kind = IF isWebsocketRequest(h) THEN "websocket"
                                        ELSE "http"])
    /\ UNCHANGED mc
    /\ UNCHANGED rrVars

\* httpInit / wsInit, entry: ctx.initMutex.Lock() comes first; the started
\* flag is read under the mutex.
InitGateUnlockedCheck(started, free) ==
    IF started THEN "skip" ELSE IF free THEN "lock" ELSE "wait"
InitGate(started, free) == IF free THEN "lock" ELSE "wait"

\* if ctx.httpStarted { return }
InitBody(started) == IF started THEN "return" ELSE "run"

InitLock(t) ==
    /\ tasks[t].pc = "init"
    /\ LET g == InitGate(mc.started[tasks[t].kind], mc.initMutex = NoTask)
       IN /\ g # "wait"
          /\ IF g = "skip"
             THEN /\ tasks' = SetTask(t, [tasks[t] EXCEPT !.pc = "ready"])
                  /\ UNCHANGED mc
             ELSE /\ tasks' = SetTask(t, [tasks[t] EXCEPT !.pc = "locked"])
                  /\ mc' = [mc EXCEPT !.initMutex = t]
    /\ UNCHANGED rrVars

\* The check of the started flag; ctx.httpStarted = true; the deferred Unlock
\* on the early return.
InitCheck(t) ==
    /\ tasks[t].pc = "locked"
    /\ LET ct == tasks[t].kind
       IN IF InitBody(mc.started[ct]) = "return"
          THEN /\ tasks' = SetTask(t, [tasks[t] EXCEPT !.pc = "ready"])
               /\ mc' = [mc EXCEPT !.initMutex = NoTask]
          ELSE /\ tasks' = SetTask(t, [tasks[t] EXCEPT !.pc = "assign"])
               /\ mc' = [mc EXCEPT !.started[ct] = TRUE, !.runs[ct] = @ + 1]
    /\ UNCHANGED rrVars

Max(a, b) == IF a > b THEN a ELSE b

\* One GetOrRegister and the assignment of its result to the next field of
\* the bundle; after the last one, the deferred Unlock.
InitAssign(t) ==
    /\ tasks[t].pc = "assign"
    /\ LET ct   == tasks[t].kind
           n    == tasks[t].step + 1
           last_ == n = Len(Fields(ct))
       IN /\ tasks' = SetTask(t, [tasks[t] EXCEPT !.step = n,
                                     !.pc = IF last_ THEN "ready" ELSE "assign"])
          /\ mc' = [mc EXCEPT !.assigned[ct] = Max(@, n),
                              !.initMutex = IF last_ THEN NoTask ELSE @]
    /\ UNCHANGED rrVars

\* registry.GetOrRegister("response.count", tags, newC): the counter the
\* registry holds under the key when there is one, newC registered under it
\* otherwise.
GetOrRegister(reg, hc) == IF hc \in DOMAIN reg THEN reg ELSE reg @@ (hc :> 0)

\* func (ctx *metricsContext) IncHttpReturnCode(code int), under the mutex:
\* highCode := uint8(code / 100); when the map has no counter for highCode,
\* newC is stored in the map and c is the result of GetOrRegister; c.Inc(1).
HighCode(code) == (code \div 100) % 256
IncHttpReturnCode(m, code) ==
    LET hc == HighCode(code)
    IN IF hc \in DOMAIN m.returnCode
       THEN IF m.returnCode[hc].shared
            THEN [m EXCEPT !.registry[hc] = @ + 1]
            ELSE [m EXCEPT !.returnCode[hc].n = @ + 1]
       ELSE [m EXCEPT
               !.returnCode = @ @@ (hc :> [shared |-> hc \notin DOMAIN m.registry,
                                           n |-> 0]),
               !.registry = [GetOrRegister(@, hc) EXCEPT ![hc] = @ + 1]]

\* Another user of the registry (a second metrics context built with the same
\* registry and tags) registers a counter under the key of class hc.
RegisterElsewhere(hc) ==
    /\ hc \notin DOMAIN mc.registry
    /\ mc' = [mc EXCEPT !.registry = GetOrRegister(@, hc)]
    /\ UNCHANGED tasks
    /\ UNCHANGED rrVars

\* ----------------------------------------------- forwarder: httpForwarder
\* The calls serveHTTP defers at a point of its body: "count" is line 206,
\* "copy" lines 246-250.
HttpDeferredNoDec(at) == IF at = "count" THEN <<>> ELSE <<"IncHttpReturnCode">>
HttpDeferred(at) ==
    IF at = "count" THEN <<"httpConnectionOpen.Dec">> ELSE <<"IncHttpReturnCode">>

\* Lines 203-208: the three counters, and the deferred Dec of the gauge.
HttpCount(t) ==
    /\ tasks[t].pc = "ready" /\ tasks[t].kind = "http"
    /\ mc' = [mc EXCEPT !.bytesIn["http"] = @ + tasks[t].cl,
                        !.count["http"] = @ + 1,
                        !.open["http"] = @ + 1]
    /\ tasks' = SetTask(t, [tasks[t] EXCEPT !.pc = "roundtrip", !.incs = @ + 1,
                                            !.defers = HttpDeferred("count")])
    /\ UNCHANGED rrVars

\* Lines 210-220: RoundTrip; on error the ErrorHandler and return, otherwise
\* the upstream headers (with the upstream Content-Length, -1 if absent) and
\* status are copied to the response.
HttpRoundTrip(t, err, code, upCL) ==
    /\ tasks[t].pc = "roundtrip"
    /\ tasks' = SetTask(t, IF err
                           THEN [tasks[t] EXCEPT !.errH = TRUE, !.outcome = "rterr",
                                                 !.pc = "exit"]
                           ELSE [tasks[t] EXCEPT !.code = code, !.upCL = upCL,
                                                 !.hdrCL = upCL,
                                                 !.pc = "copy"])
    /\ UNCHANGED mc
    /\ UNCHANGED rrVars

\* Lines 252-261: rcr.Header().Set(ContentLength, ...) replaces the values of
\* the header by the number of bytes written, when the copy succeeded and
\* wrote something.
SetContentLengthIfAbsent(hdr, written, err) ==
    IF ~err /\ written # 0 /\ hdr = -1 THEN written ELSE hdr
SetContentLength(hdr, written, err) ==
    IF ~err /\ written # 0 THEN written ELSE hdr

\* Lines 230-261: the body copy, the written counter, the defers, and the
\* Content-Length header.
HttpCopy(t, written, err) ==
    /\ tasks[t].pc = "copy"
    /\ mc' = [mc EXCEPT !.bytesOut["http"] = @ + written]
    /\ tasks' = SetTask(t, [tasks[t] EXCEPT
                               !.written = written,
                               !.defers = @ \o HttpDeferred("copy"),
                               !.outcome = IF err THEN "copyerr" ELSE "ok",
                               !.hdrCL = SetContentLength(@, written, err),
                               !.pc = "exit"])
    /\ UNCHANGED rrVars

\* The return of serveHTTP: the deferred calls, last deferred first.
\* IncHttpReturnCode takes the init mutex.
HttpReturn(t) ==
    /\ tasks[t].pc = "exit"
    /\ LET ds   == tasks[t].defers
           d    == IF ds = <<>> THEN "" ELSE ds[Len(ds)]
           rest == IF ds = <<>> THEN <<>> ELSE SubSeq(ds, 1, Len(ds) - 1)
       IN /\ d = "IncHttpReturnCode" => mc.initMutex = NoTask
          /\ mc' = CASE d = "IncHttpReturnCode" ->
                            IncHttpReturnCode(mc, tasks[t].code)
                      [] d = "httpConnectionOpen.Dec" ->
                            [mc EXCEPT !.open["http"] = @ - 1]
                      [] OTHER -> mc
          /\ tasks' = SetTask(t, [tasks[t] EXCEPT
                                     !.defers = rest,
                                     !.decs = IF d = "httpConnectionOpen.Dec"
                                              THEN @ + 1 ELSE @,
                                     !.pc = IF rest = <<>> THEN "returned" ELSE "exit"])
    /\ UNCHANGED rrVars

\* ------------------------------------------ forwarder: websocketForwarder
\* The set-up of a session runs in steps, each ending where the handler
\* waits for a call to return; the two connections are locals of the handler
\* until the pumps are started.  outcome names the way out of the set-up.
\* Line 301: ctx.metrics.wsConnectionCounter.Inc(1), before the dial.
WsCount(t) ==
    /\ tasks[t].pc = "ready" /\ tasks[t].kind = "websocket"
    /\ mc' = [mc EXCEPT !.count["websocket"] = @ + 1]
    /\ tasks' = SetTask(t, [tasks[t] EXCEPT !.pc = "dial"])
    /\ UNCHANGED rrVars

\* Lines 315-320: f.dial returns; on an error the ErrorHandler is invoked
\* and the handler returns.
WsDial(t, ok) ==
    /\ tasks[t].pc = "dial"
    /\ tasks' = SetTask(t,
          IF ok THEN [tasks[t] EXCEPT !.targetConn = OpenConn, !.pc = "hijack"]
          ELSE [tasks[t] EXCEPT !.outcome = "dialerr", !.errH = TRUE,
                                !.pc = "returned"])
    /\ UNCHANGED mc
    /\ UNCHANGED rrVars

\* Lines 321-333: w is not an http.Hijacker (the dialed connection is left
\* as it is), Hijack fails (targetConn.Close()), or Hijack returns the
\* client's connection.
HijackOutcomes == {"nohijacker", "hijackerr", "ok"}
WsHijack(t, outcome) ==
    /\ tasks[t].pc = "hijack"
    /\ tasks' = SetTask(t,
          CASE outcome = "nohijacker" ->
                    [tasks[t] EXCEPT !.outcome = outcome, !.errH = TRUE,
                                     !.pc = "returned"]
            [] outcome = "hijackerr" ->
                    [tasks[t] EXCEPT !.outcome = outcome, !.errH = TRUE,
                                     !.targetConn = ClosedConn(@),
                                     !.pc = "returned"]
            [] outcome = "ok" ->
                    [tasks[t] EXCEPT !.underlyingConn = OpenConn, !.pc = "write"])
    /\ UNCHANGED mc
    /\ UNCHANGED rrVars

\* Lines 337-343: outReq.Write(targetConn) returns; on an error the
\* ErrorHandler is invoked and both connections are closed.
WsWrite(t, ok) ==
    /\ tasks[t].pc = "write"
    /\ tasks' = SetTask(t,
          IF ok THEN [tasks[t] EXCEPT !.pc = "start"]
          ELSE [tasks[t] EXCEPT !.outcome = "writeerr", !.errH = TRUE,
                                !.underlyingConn = ClosedConn(@),
                                !.targetConn = ClosedConn(@),
                                !.pc = "returned"])
    /\ UNCHANGED mc
    /\ UNCHANGED rrVars

\* Lines 386-390: wg.Add(2) and the two go statements; the session is
\* established.
WsStart(t) ==
    /\ tasks[t].pc = "start"
    /\ tasks' = SetTask(t, [tasks[t] EXCEPT !.outcome = "ok", !.wg = 2,
                                            !.pump = [d \in Dirs |-> "copy"],
                                            !.pc = "inc"])
    /\ UNCHANGED mc
    /\ UNCHANGED rrVars

\* Lines 392-398: the gauge is incremented, the waiter is started, the
\* handler returns.
WsInc(t) ==
    /\ tasks[t].pc = "inc"
    /\ mc' = [mc EXCEPT !.open["websocket"] = @ + 1]
    /\ tasks' = SetTask(t, [tasks[t] EXCEPT !.incs = @ + 1, !.waiter = "wait",
                                            !.pc = "returned"])
    /\ UNCHANGED rrVars

\* wg.Wait() returns when the counter of the WaitGroup is 0.
WaitReturnsAlways(wg) == TRUE
WaitReturns(wg) == wg = 0

\* Lines 393-397: the waiter.
Waiter(t) ==
    /\ tasks[t].waiter = "wait"
    /\ WaitReturns(tasks[t].wg)
    /\ mc' = [mc EXCEPT !.open["websocket"] = @ - 1]
    /\ tasks' = SetTask(t, [tasks[t] EXCEPT !.decs = @ + 1, !.waiter = "done"])
    /\ UNCHANGED rrVars

\* replicate(wg, dst, src, copied): "up" is replicate(wg, targetConn,
\* underlyingConn, wsRead), "down" is replicate(wg, underlyingConn,
\* targetConn, wsWritten).
Src(r, d) == IF d = "up" THEN r.underlyingConn ELSE r.targetConn
CloseDst(r, d) ==
    IF d = "up" THEN [r EXCEPT !.targetConn = ClosedConn(@)]
    ELSE [r EXCEPT !.underlyingConn = ClosedConn(@)]
Copied(m, d, n) ==
    IF d = "up" THEN [m EXCEPT !.bytesIn["websocket"] = @ + n]
    ELSE [m EXCEPT !.bytesOut["websocket"] = @ + n]
CopiedSoFar == mc.bytesIn["websocket"] + mc.bytesOut["websocket"]

\* Lines 355-356, the top of the loop (fastFail, the read deadline): whether
\* the source is already at its end when io.Copy is called.
AtEnd(src) == src.st = "closed" \/ src.peer

\* Lines 358-382: what the pump does with the result (n, err) of io.Copy.
\* io.Copy returns a nil error at the end of the source, never io.EOF.
\* ret is "timeout" (a net.Error with Timeout()), "error" (any other error)
\* or "nil"; fast is time.Now().Before(fastFail).
AfterCopyNoCleanClose(ret, n, fast) == IF ret = "error" THEN "exit" ELSE "loop"
AfterCopy(ret, n, fast) ==
    CASE ret = "timeout" -> "loop"
      [] ret = "error"   -> "exit"
      [] ret = "nil"     -> IF n = 0 /\ fast THEN "exit" ELSE "loop"

\* Lines 361-382: the level of the message the pump logs before it returns:
\* Warnf for an error seen while closing is 0, Debugf for one seen once it
\* is set, Infof for a clean close.
LogLevel(ret, closing) ==
    CASE ret = "error" -> IF closing = 0 THEN "warn" ELSE "debug"
      [] ret = "nil"   -> "info"
      [] OTHER         -> ""

\* The results (n, err) io.Copy(dst, src) can have, n being the bytes
\* written.  A timeout of the read deadline needs a source that is open and
\* whose peer has not closed.  The end of the source (a nil error) needs a
\* peer that has closed.  Any other error can come at any time and with any
\* n: a Read on a source closed on this side, a Read on a connection the
\* peer or the network has reset, a Write that fails (nothing written, or
\* some of it).  A call on a source that was already at its end returns at
\* once: no bytes, and well before fastFail.
CopyResults(r, d) ==
    LET src == Src(r, d)
    IN {x \in [ret : {"timeout", "error", "nil"}, n : {0, 1}, fast : BOOLEAN] :
          /\ x.ret = "timeout" => (src.st = "open" /\ ~src.peer /\ ~x.fast)
          /\ x.ret = "nil" => (src.st = "open" /\ src.peer)
          /\ r.atEOF[d] => (x.n = 0 /\ x.fast)
          /\ x.n = 1 => CopiedSoFar < MaxBytes}

\* The results that need nothing more from the remote end or the network: no
\* byte sent (n = 0) and, of the errors, only the one of a source closed on
\* this side.  On a source that is open and silent that leaves the timeout
\* of the read deadline, over and over.
OwnResults(r, d) ==
    {x \in CopyResults(r, d) :
        /\ x.n = 0
        /\ x.ret = "error" => Src(r, d).st = "closed"}

\* One turn of the loop of replicate: io.Copy with one of `results`,
\* copied.Inc(n), and either the return or the top of the loop again.
PumpCopy(t, d, results) ==
    /\ tasks[t].pump[d] = "copy"
    /\ \E x \in results :
          /\ mc' = Copied(mc, d, x.n)
          /\ tasks' = SetTask(t,
                IF AfterCopy(x.ret, x.n, x.fast) = "exit"
                THEN [tasks[t] EXCEPT
                        !.pump[d] = "store",
                        !.exit[d] = [ret |-> x.ret,
                                     level |-> LogLevel(x.ret, tasks[t].closing),
                                     srcClosed |-> Src(tasks[t], d).st = "closed"]]
                ELSE [tasks[t] EXCEPT !.atEOF[d] = AtEnd(Src(tasks[t], d))])
    /\ UNCHANGED rrVars

\* Lines 348-350, the deferred calls of replicate, last deferred first:
\* atomic.StoreInt32(&closing, 1), dst.Close(), wg.Done().
PumpExitCloseFirst(t, d) ==
    /\ tasks[t].pump[d] \in {"store", "close"}
    /\ tasks' = SetTask(t,
          CASE tasks[t].pump[d] = "store" ->
                    [CloseDst(tasks[t], d) EXCEPT !.pump[d] = "close"]
            [] tasks[t].pump[d] = "close" ->
                    [tasks[t] EXCEPT !.closing = 1, !.wg = @ - 1, !.pump[d] = "done"])
    /\ UNCHANGED mc
    /\ UNCHANGED rrVars
PumpExit(t, d) ==
    /\ tasks[t].pump[d] \in {"store", "close"}
    /\ tasks' = SetTask(t,
          CASE tasks[t].pump[d] = "store" ->
                    [tasks[t] EXCEPT !.closing = 1, !.pump[d] = "close"]
            [] tasks[t].pump[d] = "close" ->
                    [CloseDst(tasks[t], d) EXCEPT !.wg = @ - 1, !.pump[d] = "done"])
    /\ UNCHANGED mc
    /\ UNCHANGED rrVars

\* The client or the backend closes its end of an established session.
PeerClose(t, d) ==
    /\ tasks[t].outcome = "ok" /\ tasks[t].kind = "websocket"
    /\ Src(tasks[t], d).st = "open" /\ ~Src(tasks[t], d).peer
    /\ tasks' = SetTask(t, IF d = "up"
                           THEN [tasks[t] EXCEPT !.underlyingConn.peer = TRUE]
                           ELSE [tasks[t] EXCEPT !.targetConn.peer = TRUE])
    /\ UNCHANGED mc
    /\ UNCHANGED rrVars

\* ------------------------------------------------------------ input sets
\* EnableJSID options: a group-only Routing (status other than "FULL",
\* stickyRoutingOnly) and two kinds of in-rotation Routing.
RoutingKinds == {<<"OK", TRUE>>, <<"OK", FALSE>>, <<"FULL", TRUE>>}
KeyLists == {<<1>>}
JSIDOpts == {OptEnableJSID(k[1], g, keys, k[2]) :
                k \in RoutingKinds, g \in GIDs, keys \in KeyLists}

\* --------------------------------------------------------- specifications
\* SpecRR: the weighted iterator.  Three backends, weights 0..MaxWeight set
\* at insertion or by a later UpsertServer, no routing.
RRURLs == {UA, UB, UC}
RROptLists == {<<>>} \cup {<<OptWeight(w)>> : w \in -1..MaxWeight}

UpsertRR ==
    \E u \in RRURLs, opts \in RROptLists : UpsertServer(u, opts) /\ UNCHANGED nmut
RemoveRR == \E u \in RRURLs : RemoveServer(u) /\ UNCHANGED nmut
NextRR   == NextServerWithin(MaxPicks)

InitRR == Init /\ ~ss
NextStepRR == UpsertRR \/ RemoveRR \/ NextRR
SpecRR == InitRR /\ [][NextStepRR]_vars


\* SpecPool: the registry.  Two URLs, default weights, every kind of Routing,
\* and one NextServer call between two changes of the pool.
PoolURLs == {UA, UB}
PoolOptLists == {<<>>, <<OptWeight(-1)>>} \cup {<<o>> : o \in JSIDOpts}

UpsertPool ==
    \E u \in PoolURLs \cup {NilURL}, opts \in PoolOptLists :
        UpsertServer(u, opts) /\ UNCHANGED nmut
RemovePool == \E u \in PoolURLs : RemoveServer(u) /\ UNCHANGED nmut
NextPool   == NextServerWithin(1)

NextStepPool == UpsertPool \/ RemovePool \/ NextPool
SpecPool == InitRR /\ [][NextStepPool]_vars


\* SpecPartial: calls that fail.  UpsertServer with a nil URL, with a
\* rejected Weight option alone or after an accepted one, RemoveServer of an
\* absent URL, next to the calls that succeed, and NextServer.
PartialURLs == {UA, UB}
PartialOptLists ==
    {<<>>, <<OptWeight(-1)>>, <<OptWeight(2)>>}
        \cup {<<OptWeight(w), OptWeight(-1)>> : w \in {0, 2}}
NextStepPartial ==
    \/ \E u \in PartialURLs \cup {NilURL}, opts \in PartialOptLists :
          UpsertServer(u, opts) /\ UNCHANGED nmut
    \/ \E u \in PartialURLs : RemoveServer(u) /\ UNCHANGED nmut
    \/ NextServerWithin(MaxPicks)
SpecPartial == InitRR /\ [][NextStepPartial]_vars


\* SpecServe: ServeHTTP, one request at a time, interleaved with changes of
\* the pool.  The cookie is absent, unparsable, or names http://a/ (under
\* another spelling) or http://c/, which is never in the pool; the token is
\* absent, unparsable, or names a group and verifies against a set of keys.
ServeURLs == {UA, UB}
ServeOptLists ==
    {<<>>, <<OptWeight(0)>>}
        \cup {<<OptEnableJSID("OK", 1, <<1>>, b)>> : b \in BOOLEAN}
CookieInputs ==
    {<<"none", NilURL>>, <<"bad", NilURL>>} \cup {<<"url", u>> : u \in {UAq, UC}}
TokenInputs ==
    {<<"none", 0, {}>>, <<"err", 0, {}>>}
        \cup {<<"ok", 1, {}>>, <<"ok", 1, {1}>>, <<"ok", 2, {1}>>}

Counted == nmut < MaxMuts /\ nmut' = nmut + 1
UpsertServe ==
    \E u \in ServeURLs, opts \in ServeOptLists : UpsertServer(u, opts) /\ Counted
RemoveServe == \E u \in ServeURLs : RemoveServer(u) /\ Counted
Accept ==
    \E c \in CookieInputs, t \in TokenInputs, hasUc \in BOOLEAN :
        ServeCookie(RX, c[1], c[2], t[1], t[2], t[3], hasUc)

NextStepServe ==
    UpsertServe \/ RemoveServe \/ Accept \/ ServeToken \/ ServeStuck \/ ServeSelect \/ ServeForward
SpecServe == Init /\ [][NextStepServe]_vars


\* SpecSelect: requests that reach NextServer, over rotations that are empty,
\* all of weight 0, or serviceable.
SelectOptLists == {<<>>, <<OptWeight(0)>>}
SelectCookies == {<<"none", NilURL>>, <<"url", UAq>>}
SelectTokens == {<<"none", 0, {}>>, <<"ok", 1, {}>>}

UpsertSelect ==
    \E u \in ServeURLs, opts \in SelectOptLists : UpsertServer(u, opts) /\ Counted
RemoveSelect == \E u \in ServeURLs : RemoveServer(u) /\ Counted
AcceptSelect ==
    \E c \in SelectCookies, t \in SelectTokens, hasUc \in BOOLEAN :
        ServeCookie(RX, c[1], c[2], t[1], t[2], t[3], hasUc)

NextStepSelect ==
    UpsertSelect \/ RemoveSelect \/ AcceptSelect \/ ServeToken \/ ServeStuck \/ ServeSelect \/ ServeForward
SpecSelect == Init /\ [][NextStepSelect]_vars

\* SpecClone: the URL of the clone ServeHTTP hands to the next handler.  A
\* backend at the root and one under /api, with and without pathRewrite, and
\* requests for "/x?q=1" and "/".
CloneURLs == {UA, UP}
CloneOptLists == {<<>>, <<OptPathRewrite(TRUE)>>}
CloneCookies == {<<"none", NilURL>>, <<"bad", NilURL>>, <<"url", UA>>}
CloneTokens == {<<"none", 0, {}>>, <<"err", 0, {}>>, <<"ok", 1, {}>>}

UpsertClone ==
    \E u \in CloneURLs, opts \in CloneOptLists : UpsertServer(u, opts) /\ Counted
RemoveClone == \E u \in CloneURLs : RemoveServer(u) /\ Counted
AcceptClone ==
    \E u \in {RX, RS}, c \in CloneCookies, t \in CloneTokens, hasUc \in BOOLEAN :
        ServeCookie(u, c[1], c[2], t[1], t[2], t[3], hasUc)

NextStepClone ==
    UpsertClone \/ RemoveClone \/ AcceptClone \/ ServeToken \/ ServeStuck \/ ServeSelect \/ ServeForward
SpecClone == Init /\ [][NextStepClone]_vars

\* SpecRace: a request with a signed token served while UpsertServer and
\* RemoveServer calls, of a Backend with a Routing or without, are between
\* their Lock and their Unlock.
RaceURLs == {UA, UB}
RaceOptLists == {<<>>, <<OptEnableJSID("OK", 1, <<1>>, FALSE)>>}
RaceTokens == {<<"none", 0, {}>>, <<"ok", 1, {1}>>}
NextStepRace ==
    \/ \E writes \in BOOLEAN : LockPool(writes)
    \/ \E u \in RaceURLs, opts \in RaceOptLists : UpsertLocked(u, opts) /\ Counted
    \/ \E u \in RaceURLs : RemoveLocked(u) /\ Counted
    \/ \E t \in RaceTokens : ServeCookie(RX, "none", NilURL, t[1], t[2], t[3], TRUE)
    \/ ServeToken
    \/ ServeStuck
    \/ ServeSelect
    \/ ServeForward
SpecRace == InitRR /\ [][NextStepRace]_vars


\* SpecInit: concurrent first calls of httpInit and wsInit.
DispatchAny ==
    \E t \in Tasks, h \in {PlainHeader, UpgradeHeader}, cl \in {-1, 3} :
        FwdDispatch(t, h, cl)
InitStep == \E t \in Tasks : InitLock(t) \/ InitCheck(t) \/ InitAssign(t)

NextStepInit == DispatchAny \/ InitStep
SpecInit == InitRR /\ [][NextStepInit]_vars


\* SpecDetect: Forwarder.ServeHTTP on requests whose Connection and Upgrade
\* headers are absent, hold one item or several, in mixed case, with white
\* space around an item or inside it.
ConnectionValues ==
    {<<>>,
     <<"keep-alive">>,
     <<"up", "grade">>,
     <<"Up", "grade", ",", " ", "keep-alive">>,
     <<"Keep-Alive", ",", " ", "UP", "GRADE", " ">>,
     <<"up", " ", "grade">>,
     <<"up", "grade", "web", "socket">>}
UpgradeValues ==
    {<<>>,
     <<"web", "socket">>,
     <<" ", "Web", "Socket">>,
     <<"h2c", ",", "WEB", "socket">>,
     <<"h2c">>,
     <<"web", " ", "socket">>}
DispatchDetect ==
    \E t \in Tasks, c \in ConnectionValues, u \in UpgradeValues :
        FwdDispatch(t, [Connection |-> c, Upgrade |-> u], 0)

NextStepDetect == DispatchDetect
SpecDetect == InitRR /\ [][NextStepDetect]_vars


\* SpecHTTP: concurrent requests in httpForwarder.serveHTTP.  Requests of
\* unknown and of known body length; the round trip fails or answers 200,
\* with or without a Content-Length; the body copy fails or not, after 0 or
\* 2 bytes.
HttpCodes == {200}
UpstreamCLs == {-1, 5}
DispatchHTTP == \E t \in Tasks, cl \in {-1, 3} : FwdDispatch(t, PlainHeader, cl)

NextStepHTTP ==
    \/ DispatchHTTP
    \/ InitStep
    \/ \E t \in Tasks : HttpCount(t)
    \/ \E t \in Tasks, err \in BOOLEAN, code \in HttpCodes, upCL \in UpstreamCLs :
          HttpRoundTrip(t, err, IF err THEN 0 ELSE code, IF err THEN -1 ELSE upCL)
    \/ \E t \in Tasks, written \in {0, 2}, err \in BOOLEAN : HttpCopy(t, written, err)
    \/ \E t \in Tasks : HttpReturn(t)
SpecHTTP == InitRR /\ [][NextStepHTTP]_vars


\* SpecCodes: the response-class counters.  Responses of class 2 and of
\* class 6, relayed by a metrics context whose registry may be given a
\* counter of class 2 by someone else.
ReturnCodes == {200, 600}
NextStepCodes ==
    \/ \E t \in Tasks : FwdDispatch(t, PlainHeader, 0)
    \/ InitStep
    \/ \E t \in Tasks : HttpCount(t)
    \/ \E t \in Tasks, code \in ReturnCodes : HttpRoundTrip(t, FALSE, code, -1)
    \/ \E t \in Tasks : HttpCopy(t, 0, FALSE)
    \/ \E t \in Tasks : HttpReturn(t)
    \/ RegisterElsewhere(HighCode(200))
SpecCodes == InitRR /\ [][NextStepCodes]_vars


\* SpecWS: WebSocket sessions: every way out of the set-up, the two pumps,
\* the waiter, and the client or the backend closing its end.
Sessions == {t \in Tasks : tasks[t].kind = "websocket"}
DispatchWS ==
    \E t \in Tasks : Cardinality(Sessions) < MaxSessions /\ FwdDispatch(t, UpgradeHeader, 0)
SessionSetup ==
    \/ \E t \in Tasks : WsCount(t)
    \/ \E t \in Tasks, ok \in BOOLEAN : WsDial(t, ok)
    \/ \E t \in Tasks, outcome \in HijackOutcomes : WsHijack(t, outcome)
    \/ \E t \in Tasks, ok \in BOOLEAN : WsWrite(t, ok)
    \/ \E t \in Tasks : WsStart(t)
SessionRun ==
    \/ \E t \in Tasks : WsInc(t)
    \/ \E t \in Tasks : Waiter(t)
    \/ \E t \in Tasks, d \in Dirs : PumpCopy(t, d, CopyResults(tasks[t], d))
    \/ \E t \in Tasks, d \in Dirs : PumpExit(t, d)
    \/ \E t \in Tasks, d \in Dirs : PeerClose(t, d)

NextStepWS == DispatchWS \/ InitStep \/ SessionSetup \/ SessionRun
SpecWS == InitRR /\ [][NextStepWS]_vars


\* SpecWSFair: one WebSocket session from the dispatch to its end.  The
\* goroutines of the session (the handler, the two pumps, the waiter) are
\* scheduled fairly: while one of them can take a step, one of them does.
\* Fairness promises no byte from the remote end and no error of the
\* network: a pump is only sure to get the results of io.Copy that its own
\* side of the session brings about.
\* The client and the backend close when they choose to, or never.
DispatchSession == \E t \in Tasks : Sessions = {} /\ FwdDispatch(t, UpgradeHeader, 0)
SessionStep(t) ==
    \/ InitLock(t) \/ InitCheck(t) \/ InitAssign(t)
    \/ WsCount(t) \/ WsStart(t) \/ WsInc(t) \/ Waiter(t)
    \/ \E d \in Dirs : PumpCopy(t, d, OwnResults(tasks[t], d)) \/ PumpExit(t, d)
FairWS == \A t \in Tasks : WF_vars(SessionStep(t))

NextStepSession == DispatchSession \/ InitStep \/ SessionSetup \/ SessionRun
SpecWSFair == InitRR /\ [][NextStepSession]_vars /\ FairWS

\* ----------------------------------------------------- properties: SpecRR
\* The run recorded in `picks` started from a freshly reset iterator and no
\* pool mutation has happened since.
FreshRun == startFresh /\ mutex = "free"

Count(seq, x) == Cardinality({i \in DOMAIN seq : seq[i] = x})
RECURSIVE Sum(_)
Sum(ws) == IF ws = <<>> THEN 0 ELSE Head(ws) + Sum(Tail(ws))
\* The greatest common divisor of the weights, by its definition.
Divides(d, ws) == \A i \in DOMAIN ws : ws[i] % d = 0
GcdOf(ws) == CHOOSE d \in 1..(Sum(ws) + 1) :
                Divides(d, ws) /\ \A e \in (d + 1)..(Sum(ws) + 1) : ~Divides(e, ws)
SomePositive(ws) == \E i \in DOMAIN ws : ws[i] > 0
BlockLen(ws) == Sum(ws) \div GcdOf(ws)
LastBlock(seq, n) == SubSeq(seq, Len(seq) - n + 1, Len(seq))

\* C1: from a fresh iterator and without pool mutation, every block of
\* S = sum(weights)/gcd(weights) consecutive NextServer calls returns each
\* rotation Backend of weight w exactly w/gcd times.
C1_BlockProportional ==
    (FreshRun /\ SomePositive(Weights) /\ Len(picks) > 0
        /\ Len(picks) % BlockLen(Weights) = 0)
    => \A i \in 1..Len(servers) :
          Count(LastBlock(picks, BlockLen(Weights)), servers[i])
              = Weights[i] \div GcdOf(Weights)

\* Two complete blocks over two Backends of different weights.
C1_Witness ==
    /\ FreshRun
    /\ Len(servers) = 2
    /\ Weights = <<1, 2>>
    /\ Len(picks) = 2 * BlockLen(Weights)

Schedule123 == <<3, 2, 3, 1, 2, 3>>
FirstSix == SubSeq(picks, 1, 6)

\* C2: the selection order is the GCD-interleaved schedule: with weights
\* 1,2,3 (in rotation order) the first six NextServer calls return the
\* Backends of weight 3,2,3,1,2,3; with http://a/ of weight 1 and http://b/ of
\* weight 2, six calls return A twice and B four times, A never twice in a row.
C2_Schedule ==
    /\ (FreshRun /\ Weights = <<1, 2, 3>>)
       => \A k \in 1..Len(picks) : k <= 6 => picks[k] = servers[Schedule123[k]]
    /\ (FreshRun /\ Len(servers) = 2 /\ Len(picks) >= 6
          /\ \E a, b \in Range(servers) :
                /\ heap[a].url = UA /\ heap[a].weight = 1
                /\ heap[b].url = UB /\ heap[b].weight = 2)
       => LET a == CHOOSE p \in Range(servers) : heap[p].url = UA
              b == CHOOSE p \in Range(servers) : heap[p].url = UB
          IN /\ Count(FirstSix, a) = 2
             /\ Count(FirstSix, b) = 4
             /\ \A k \in 1..5 : ~(picks[k] = a /\ picks[k + 1] = a)

C2_Witness ==
    /\ FreshRun
    /\ Weights = <<1, 2, 3>>
    /\ Len(picks) >= 6

AllZero(ws) == \A i \in DOMAIN ws : ws[i] = 0

\* C8: NextServer returns an error and no Backend when the rotation is empty
\* and when every Backend of the rotation has weight 0; in every other pool
\* state it returns a Backend of the rotation.
C8_NextErrorIffUnservable ==
    last.op = "NextServer"
    => IF Len(servers) = 0 \/ AllZero(Weights)
       THEN last.err # "" /\ last.ret = NilPtr
       ELSE last.err = "" /\ last.ret \in Range(servers)

\* C9: NextServer never returns a Backend whose weight is 0.
C9_NeverZeroWeight ==
    (last.op = "NextServer" /\ last.ret # NilPtr) => heap[last.ret].weight > 0

\* C24: after a successful UpsertServer(u, Weight(w)) with w >= 0, of a new
\* Backend or of one already in the rotation, ServerWeight(u) returns
\* (w, true); after UpsertServer(u) of a new URL without a weight option it
\* returns (1, true); for a URL that is not present it returns (-1, false).
C24_WeightGetter ==
    [][\A u \in RRURLs :
          /\ \A w \in 0..MaxWeight :
                (UpsertServer(u, <<OptWeight(w)>>) /\ last'.err = "")
                => ServerWeight(u)' = <<w, TRUE>>
          /\ (UpsertServer(u, <<>>) /\ last'.err = "" /\ findServerByURL(u) = 0)
             => ServerWeight(u)' = <<1, TRUE>>
          /\ findServerByURL(u) = 0 => ServerWeight(u) = <<-1, FALSE>>]_vars

\* --------------------------------------------------- properties: SpecPool
\* C3: after any successful UpsertServer or RemoveServer the iterator state
\* is index = -1 and currentWeight = 0.
C3_IteratorResetAfterMutation ==
    (last.op \in {"UpsertServer", "RemoveServer"} /\ last.err = "")
    => (index = -1 /\ currentWeight = 0)

GroupOnly(s) ==
    ~s.routing.isnil /\ s.routing.stickyRoutingOnly /\ s.routing.status # "FULL"

\* C4: every registered Backend that has a Routing is the value of the group
\* map at its groupID, and every registered Backend with
\* stickyRoutingOnly = false or status = "FULL" is in the rotation.
C4_GroupMapAndRotationDerived ==
    \A p \in Registered :
        ~heap[p].routing.isnil
        => /\ stickyServers[heap[p].routing.groupID] = p
           /\ ~GroupOnly(heap[p]) => p \in Range(servers)

\* C5: a Backend whose Routing has stickyRoutingOnly = true and a status other
\* than "FULL" is not in the rotation: Servers() never contains it and
\* NextServer never returns it.
C5_GroupOnlyOutOfRotation ==
    /\ \A i \in 1..Len(Servers) : ~GroupOnly(heap[Servers[i]])
    /\ (last.op = "NextServer" /\ last.ret # NilPtr) => ~GroupOnly(heap[last.ret])

RegisteredAtNext(u) ==
    {p \in RegisteredIn(servers', stickyServers') : sameURL(heap'[p].url, u)}

\* C6: RemoveServer(u) of a registered Backend, in-rotation or group-only,
\* succeeds; afterwards neither the rotation nor the group map references that
\* Backend, and no group-map entry of another Backend has been deleted.
C6_RemoveRegistered ==
    [][\A u \in PoolURLs :
          (RemoveServer(u) /\ RegisteredAt(u) # {})
          => /\ last'.err = ""
             /\ RegisteredAtNext(u) = {}
             /\ \A g \in GIDs :
                   (stickyServers[g] # NilPtr /\ ~sameURL(heap[stickyServers[g]].url, u))
                   => stickyServers'[g] # NilPtr]_vars

\* C7: two successive UpsertServer(u) calls leave exactly one Backend with URL
\* u registered, and UpsertServer(u) of an absent URL followed by
\* RemoveServer(u) restores the number of registered Backends.
C7_UpsertIdempotentRemoveInverse ==
    [][\A u \in PoolURLs :
          /\ (/\ \E opts \in PoolOptLists : UpsertServer(u, opts)
              /\ last'.err = ""
              /\ last.op = "UpsertServer" /\ last.err = "" /\ sameURL(last.url, u))
             => Cardinality(RegisteredAtNext(u)) = 1
          /\ (/\ RemoveServer(u)
              /\ last.op = "UpsertServer" /\ last.err = "" /\ sameURL(last.url, u)
              /\ ~last.present)
             => Cardinality(RegisteredIn(servers', stickyServers')) = last.card]_vars

\* ------------------------------------------------ properties: SpecPartial
\* C26: NextServer terminates in every reachable pool state, also after
\* UpsertServer calls that returned an option error: its loop returns a
\* Backend or an error and the mutex is released.
C26_NextTerminates ==
    /\ mutex = "free"
    /\ last.op = "NextServer" => last.err # "no return"

\* C27: a pool operation that returns an error leaves the rotation, the group
\* map, every Backend's weight, pathRewrite and Routing and the iterator
\* state as they were.
C27_FailureLeavesPoolUnchanged ==
    [][\A u \in PartialURLs \cup {NilURL} :
          ((\/ \E opts \in PartialOptLists : UpsertServer(u, opts)
            \/ RemoveServer(u))
              /\ last'.err # "")
          => UNCHANGED <<heap, servers, stickyServers, index, currentWeight>>]_vars

\* --------------------------------------------------- properties: SpecRace
\* C28: every access to the pool's shared state made while serving a request,
\* the lookup of a groupID in the group map included, is made under the pool
\* mutex: the group map is never read while an UpsertServer or a RemoveServer
\* is writing it.
C28_GroupMapReadUnderMutex ==
    ~req.race /\ req.result # "fatal"

\* ------------------------------------- properties: SpecServe, SpecSelect
\* C10: cookie stickiness wins: a request (here one that carries an upstream
\* context) whose sticky cookie resolved to a Backend of the rotation is
\* forwarded to that Backend, whether or not it also carries a signed token.
C10_CookieWins ==
    (req.pc = "done" /\ req.hasUc /\ req.cookieSrv # NilPtr)
    => (req.result = "forwarded" /\ req.fwdTo = req.cookieSrv)

\* C11: a request with a parsed signed token is forwarded to the group-map
\* Backend of the token's groupID on account of the token (no NextServer call,
\* not the cookie's Backend) only if the token verified against one of that
\* Backend's keys; when no key verifies or the group has no Backend, the
\* observation jsid-error = "No corresponding jumpy announce" is written
\* (stated for requests that carry an upstream context).
C11_GroupStickinessVerified ==
    (req.pc = "done" /\ req.hasUc /\ req.token = "ok")
    => /\ (req.result = "forwarded" /\ req.next = "none" /\ req.fwdTo # req.cookieSrv)
          => req.group = "verified"
       /\ req.group \in {"miss", "unverified"}
          => req.obs["jsid-error"] = "No corresponding jumpy announce"

\* C12: without an upstream context in the request's context ServeHTTP
\* completes on every path without a fault.
C12_NoUpstreamContextNoFault ==
    (req.pc = "done" /\ ~req.hasUc) => ~req.panic

\* C13: when the request is not stuck and NextServer fails (empty rotation or
\* all weights 0), ServeHTTP answers 503, does not call the next handler and
\* sets no sticky cookie.
C13_NextFails503 ==
    (req.pc = "done" /\ req.next \in {"empty", "zero"})
    => /\ ~req.stuck
       /\ req.result = "503"
       /\ req.fwdTo = NilPtr /\ req.target = NilURL
       /\ req.setCookie = NilURL

\* Sticky sessions configured, a rotation whose weights are all 0.
C13_Witness ==
    /\ req.pc = "done" /\ req.next = "zero" /\ ss
    /\ Len(servers) > 0 /\ AllZero(Weights)

\* C14: with sticky sessions configured, a request whose cookie is absent or
\* names no rotation Backend and to which no group stickiness applies gets its
\* Backend from NextServer and the sticky cookie is set to that Backend's URL
\* before the delegation; a stuck request gets no sticky cookie.
C14_FreshStickyCookie ==
    (req.pc = "done" /\ ss)
    => /\ (req.cookie \in {"none", "url"} /\ req.cookieSrv = NilPtr
             /\ req.group # "verified")
          => /\ req.next # "none"
             /\ req.next = "ok"
                => (req.fwdTo # NilPtr /\ req.setCookie = heap[req.fwdTo].url)
       /\ req.stuck => req.setCookie = NilURL

\* -------------------------------------------------- properties: SpecClone
\* C15: ServeHTTP leaves the incoming request unchanged: the url.URL of the
\* request is what it was on entry at every point of the handler, and the
\* clone handed to the next handler has the Backend's scheme and host and the
\* request's query.
C15_RequestUnchanged ==
    /\ req.url = req.entry
    /\ (req.pc = "done" /\ req.result = "forwarded")
       => /\ req.target.scheme = heap[req.fwdTo].url.scheme
          /\ req.target.host = heap[req.fwdTo].url.host
          /\ req.target.query = req.entry.query
          /\ req.url.scheme # req.target.scheme /\ req.url.host # req.target.host

\* A request for /x?q=1 delegated to the backend under /api with pathRewrite.
C15_Witness ==
    /\ req.pc = "done" /\ req.result = "forwarded"
    /\ req.entry = RX
    /\ req.target = MkURL("http", "b", "/api/x", "q=1")

\* --------------------------------------------------- properties: SpecHTTP
\* The requests inside httpForwarder.serveHTTP, past the increment of the
\* gauge.
HttpInside == {t \in Tasks : tasks[t].kind = "http"
                              /\ tasks[t].pc \in {"roundtrip", "copy", "exit"}}

\* C16: on the HTTP path the concurrent-open gauge is incremented once per
\* request and decremented exactly once on every exit path, after the
\* increment; under every interleaving it equals the number of requests inside
\* the handler, and it is back at its initial value when all have returned.
C16_HttpGaugeBalanced ==
    /\ \A t \in Tasks :
          tasks[t].kind = "http"
          => /\ tasks[t].decs <= tasks[t].incs /\ tasks[t].incs <= 1
             /\ t \in HttpInside => (tasks[t].incs = 1 /\ tasks[t].decs = 0)
             /\ tasks[t].pc = "returned" => (tasks[t].incs = 1 /\ tasks[t].decs = 1)
    /\ mc.open["http"] = Cardinality(HttpInside)
    /\ (\A t \in Tasks : tasks[t].pc \in {"idle", "returned"}) => mc.open["http"] = 0

\* One request has returned after a transport error, one after a failed body
\* copy.
C16_Witness ==
    \E t, u \in Tasks :
        /\ tasks[t].pc = "returned" /\ tasks[t].outcome = "rterr"
        /\ tasks[u].pc = "returned" /\ tasks[u].outcome = "copyerr"

\* The requests whose response body was copied without error.
Relayed == {t \in Tasks : tasks[t].kind = "http" /\ tasks[t].outcome = "ok"
                            /\ tasks[t].pc \in {"exit", "returned"}}

\* C22, as stated: after a response was relayed and its body copied without
\* error, the response header map holds one Content-Length, the number of
\* bytes copied, whatever the upstream response carried.
C22_ContentLengthIsWritten ==
    \A t \in Relayed : tasks[t].hdrCL = tasks[t].written

\* C22, amended: when the copy wrote at least one byte the header map holds
\* one Content-Length, the number of bytes copied; when it wrote none the
\* header map keeps the Content-Length of the upstream response, or none.
C22_ContentLengthWhenNonEmpty ==
    \A t \in Relayed :
        /\ tasks[t].written # 0 => tasks[t].hdrCL = tasks[t].written
        /\ tasks[t].written = 0 => tasks[t].hdrCL = tasks[t].upCL

\* A response of two bytes whose upstream Content-Length was 5, and an empty
\* one.
C22_Witness ==
    \E t, u \in Relayed :
        /\ tasks[t].written = 2 /\ tasks[t].upCL = 5 /\ tasks[t].hdrCL = 2
        /\ tasks[u].written = 0

\* C30: the HTTP bytes-read counter never decreases, for requests of known
\* and of unknown body length (ContentLength = -1) alike.
C30_BytesReadMonotone ==
    [][mc'.bytesIn["http"] >= mc.bytesIn["http"]]_vars

\* -------------------------------------------------- properties: SpecCodes
\* The request t is at its deferred call of IncHttpReturnCode.
AtIncHttpReturnCode(t) ==
    /\ tasks[t].pc = "exit" /\ tasks[t].defers # <<>>
    /\ tasks[t].defers[Len(tasks[t].defers)] = "IncHttpReturnCode"

\* The value of the counters of class hc: the one the registry holds and the
\* one of the map when it is another one.
InRegistry(m, hc) == IF hc \in DOMAIN m.registry THEN m.registry[hc] ELSE 0
InMap(m, hc) ==
    IF hc \in DOMAIN m.returnCode /\ ~m.returnCode[hc].shared
    THEN m.returnCode[hc].n ELSE 0
ClassCount(m, hc) == InRegistry(m, hc) + InMap(m, hc)

\* C23: IncHttpReturnCode(code) increments the counter of class code/100
\* when the class is in 1..5; for a code of any other class it changes no
\* counter and registers nothing.
C23_ClassesOneToFive ==
    [][\A t \in Tasks :
          (AtIncHttpReturnCode(t) /\ HttpReturn(t))
          => IF HighCode(tasks[t].code) \in 1..5
             THEN ClassCount(mc', HighCode(tasks[t].code))
                      = ClassCount(mc, HighCode(tasks[t].code)) + 1
             ELSE /\ mc'.registry = mc.registry
                  /\ mc'.returnCode = mc.returnCode]_vars

\* C29: every call of IncHttpReturnCode with a code of a class in 1..5, the
\* first and the later ones, increments the counter the registry holds under
\* the key of that class, also when the registry held a counter under that
\* key before the first call.
C29_RegistryCounterIncremented ==
    [][\A t \in Tasks :
          (AtIncHttpReturnCode(t) /\ HttpReturn(t)
              /\ HighCode(tasks[t].code) \in 1..5)
          => /\ HighCode(tasks[t].code) \in DOMAIN mc'.registry
             /\ InRegistry(mc', HighCode(tasks[t].code))
                   = InRegistry(mc, HighCode(tasks[t].code)) + 1]_vars

\* ----------------------------------------------------- properties: SpecWS
PumpsDone(r) == \A d \in Dirs : r.pump[d] = "done"

\* C17: for every WebSocket session the gauge is incremented exactly once,
\* when the pumps are started, and decremented exactly once, only after both
\* pumps have exited; on the failure paths before the pumps start it is
\* unchanged; once the waiter has run the gauge is back at its pre-session
\* value.
C17_WsGaugeBalanced ==
    /\ \A t \in Tasks :
          tasks[t].kind = "websocket"
          => /\ tasks[t].decs <= tasks[t].incs /\ tasks[t].incs <= 1
             /\ tasks[t].incs = 1 => tasks[t].outcome = "ok"
             /\ tasks[t].decs = 1 => PumpsDone(tasks[t])
             /\ (tasks[t].pc = "returned" /\ tasks[t].outcome = "ok") => tasks[t].incs = 1
             /\ tasks[t].waiter = "done" => tasks[t].decs = 1
    /\ mc.open["websocket"]
          = Cardinality({t \in Tasks : tasks[t].incs = 1 /\ tasks[t].decs = 0})

\* A session that ended and whose waiter has run.
C17_Witness ==
    \E t \in Tasks :
        /\ tasks[t].kind = "websocket" /\ tasks[t].waiter = "done"
        /\ mc.open["websocket"] = 0

\* C18: on every way out of the WebSocket handler after the dial on which the
\* session is not established (w is not a Hijacker, Hijack fails, the write of
\* the handshake fails) the dialed connection has been closed and the
\* ErrorHandler invoked.
C18_DialedConnClosedOnFailure ==
    \A t \in Tasks :
        (tasks[t].pc = "returned"
            /\ tasks[t].outcome \in {"nohijacker", "hijackerr", "writeerr"})
        => (tasks[t].targetConn.st = "closed" /\ tasks[t].errH)

\* C25: the pump that exits first sets the closing flag before it closes its
\* destination, so the error the other pump gets from its source having been
\* closed is seen with the flag set and logged at debug level; and no pump
\* ends on a read-deadline timeout.
C25_ClosingBeforeClose ==
    \A t \in Tasks :
        tasks[t].outcome = "ok"
        => /\ (tasks[t].targetConn.st = "closed" \/ tasks[t].underlyingConn.st = "closed")
              => tasks[t].closing = 1
           /\ \A d \in Dirs :
                 /\ tasks[t].exit[d].ret # "timeout"
                 /\ (tasks[t].exit[d].ret = "error" /\ tasks[t].exit[d].srcClosed)
                    => tasks[t].exit[d].level = "debug"

\* The client closed; the pump reading from it ended on a clean close, the
\* other one on the error of its closed source, after a timeout-free exit.
C25_Witness ==
    \E t \in Tasks :
        /\ tasks[t].exit["up"].ret = "nil" /\ tasks[t].exit["up"].level = "info"
        /\ tasks[t].exit["down"].ret = "error" /\ tasks[t].exit["down"].srcClosed
        /\ tasks[t].exit["down"].level = "debug"
        /\ PumpsDone(tasks[t])

\* ------------------------------------------------- properties: SpecWSFair
PeerClosed(r) == r.outcome = "ok" /\ (r.underlyingConn.peer \/ r.targetConn.peer)
SessionOver(r) ==
    /\ PumpsDone(r)
    /\ r.underlyingConn.st = "closed" /\ r.targetConn.st = "closed"
    /\ r.waiter = "done"

\* C19: in an established session, once the client or the backend has closed
\* its connection, both pumps eventually exit, both connections are closed
\* and the waiter runs.
C19_SessionCancelled ==
    \A t \in Tasks : PeerClosed(tasks[t]) ~> SessionOver(tasks[t])

\* The client closed its end and the session is over.
C19_Witness ==
    \E t \in Tasks :
        /\ tasks[t].underlyingConn.peer /\ ~tasks[t].targetConn.peer
        /\ SessionOver(tasks[t])

\* --------------------------------------------------- properties: SpecInit
\* C20: under every interleaving of concurrent first calls of httpInit (of
\* wsInit) the body of the init runs at most once per conn_type, and no
\* caller gets past the init before every counter of the bundle is assigned.
C20_InitOnce ==
    /\ \A ct \in ConnTypes : mc.runs[ct] <= 1
    /\ \A t \in Tasks :
          tasks[t].pc = "ready" => mc.assigned[tasks[t].kind] = Len(Fields(tasks[t].kind))

\* Two callers of the same init are both past it.
C20_Witness ==
    \E t, u \in Tasks :
        /\ t # u /\ tasks[t].kind = tasks[u].kind
        /\ tasks[t].pc = "ready" /\ tasks[u].pc = "ready"

\* ------------------------------------------------- properties: SpecDetect
\* The spellings of a word and the white space that may surround an item.
Spellings(a, b) == {<<x, y>> : x \in a, y \in b}
UpgradeSpellings == Spellings({"up", "Up", "UP"}, {"grade", "GRADE"})
WebsocketSpellings == Spellings({"web", "Web", "WEB"}, {"socket", "Socket"})
Blanks == {<<>>, <<" ">>, <<" ", " ">>}

\* The header value v has a comma-separated item that is one of the
\* spellings, with white space before and after it at most.
HasItem(v, spellings) ==
    \E i \in 1..(Len(v) + 1), j \in 0..Len(v) :
        /\ i <= j + 1
        /\ i = 1 \/ v[i - 1] = ","
        /\ j = Len(v) \/ v[j + 1] = ","
        /\ \E l \in Blanks, w \in spellings, r \in Blanks :
              SubSeq(v, i, j) = l \o w \o r

\* C21: a request goes to the WebSocket forwarder if and only if its
\* Connection header has an item equal to "upgrade" and its Upgrade header an
\* item equal to "websocket", compared without regard to case after trimming
\* white space; every other request goes to the HTTP forwarder.
C21_WebsocketDetection ==
    \A t \in Tasks :
        tasks[t].pc # "idle"
        => /\ tasks[t].kind \in ConnTypes
           /\ tasks[t].kind = "websocket"
                 <=> /\ HasItem(tasks[t].hdr.Connection, UpgradeSpellings)
                     /\ HasItem(tasks[t].hdr.Upgrade, WebsocketSpellings)

\* Connection: "Upgrade, keep-alive" with Upgrade: "websocket" went to the
\* WebSocket forwarder, and a request with an item "up grade" to the HTTP
\* forwarder.
C21_Witness ==
    \E t, u \in Tasks :
        /\ tasks[t].kind = "websocket"
        /\ tasks[t].hdr = [Connection |-> <<"Up", "grade", ",", " ", "keep-alive">>,
                           Upgrade |-> <<"web", "socket">>]
        /\ tasks[u].kind = "http"
        /\ tasks[u].hdr.Connection = <<"up", " ", "grade">>
        /\ tasks[u].hdr.Upgrade = <<"web", "socket">>

====
